---- MODULE Spec2Model ----
(***************************************************************************)
(* Model of the iot-foundry Linux endpoint: the argument parser            *)
(* (src/src/main.c), the serial transport (src/src/platform.c) and the     *)
(* control loop of main().  Strings are sequences of one-character         *)
(* strings, so that strcmp, tolower and strncpy are modelled by what they  *)
(* do to the characters.                                                    *)
(***************************************************************************)
EXTENDS Integers, Sequences, FiniteSets, TLC

VARIABLES
    args,          \* argv elements getopt_long has not scanned yet (argv[optind..])
    nextchar,      \* rest of the short-option cluster getopt is inside (<<>> if none)
    pc,            \* position of main()
    installed,     \* signals whose disposition is signalHandler
    interrupted,   \* the static volatile flag of main.c
    sigCount,      \* signals delivered so far (bounded by MaxSignals)
    serial_device, \* the config_t of main.c: [baud, hwflow, path, fd]
    libc,          \* encoding of the termios Bxxx constants in this build
    pldm,          \* TRUE when built with PLDM_SUPPORT
    sys,           \* descriptors of the process: [openFds, ptyMasters, line, rx, badClose]
    exitStatus,    \* <<>> while running, <<status>> once main has returned
    hist           \* history record: what has been observed so far

vars == <<args, nextchar, pc, installed, interrupted, sigCount, serial_device,
          libc, pldm, sys, exitStatus, hist>>

-----------------------------------------------------------------------------
(* Bounds of the model.                                                    *)
MaxArgs == 2
MaxSignals == 2
MaxPending == 1

-----------------------------------------------------------------------------
(* Program constants.                                                      *)
ClosedFd == -1
SERIAL_PATH_MAX == 1024
EXIT_FAILURE == 1
DefaultBaud == 115200

\* a null char pointer: no string has a four-letter character
NULL == <<"NULL">>
EndOfOptions == "END"      \* getopt_long returning -1
Unknown == "?"             \* getopt_long returning '?'

Min(a, b) == IF a < b THEN a ELSE b

-----------------------------------------------------------------------------
(* Character strings.                                                      *)
EmptyStr == <<>>
StrTty == <<"t", "t", "y">>
StrBaud == <<"b", "a", "u", "d">>
StrHwflow == <<"h", "w", "f", "l", "o", "w">>
StrHelp == <<"h", "e", "l", "p">>
Str4800 == <<"4", "8", "0", "0">>
Str9600 == <<"9", "6", "0", "0">>
Str19200 == <<"1", "9", "2", "0", "0">>
Str38400 == <<"3", "8", "4", "0", "0">>
Str57600 == <<"5", "7", "6", "0", "0">>
Str115200 == <<"1", "1", "5", "2", "0", "0">>
Str230400 == <<"2", "3", "0", "4", "0", "0">>
StrTrue == <<"t", "r", "u", "e">>
StrFalse == <<"f", "a", "l", "s", "e">>
StrYes == <<"y", "e", "s">>
StrNo == <<"n", "o">>
Str1 == <<"1">>
Str0 == <<"0">>
DashDash == <<"-", "-">>

UpperChars == <<"A", "B", "C", "D", "E", "F", "G", "H", "I", "J", "K", "L", "M",
                "N", "O", "P", "Q", "R", "S", "T", "U", "V", "W", "X", "Y", "Z">>
LowerChars == <<"a", "b", "c", "d", "e", "f", "g", "h", "i", "j", "k", "l", "m",
                "n", "o", "p", "q", "r", "s", "t", "u", "v", "w", "x", "y", "z">>

tolower(c) ==
    IF \E i \in 1..26 : UpperChars[i] = c
    THEN LowerChars[CHOOSE i \in 1..26 : UpperChars[i] = c]
    ELSE c

toLower(s) == [i \in 1..Len(s) |-> tolower(s[i])]

\* strncpy(dst, src, n - 1); dst[n - 1] = '\0'
strncpy(src, n) == SubSeq(src, 1, Min(Len(src), n - 1))

IsPrefix(p, s) == Len(p) <= Len(s) /\ SubSeq(s, 1, Len(p)) = p

-----------------------------------------------------------------------------
(* termios speed constants.  "legacy" is the Linux encoding of             *)
(* <bits/termios-baud.h> (B115200 = 0010002); "numeric" is the encoding in *)
(* which Bnnn = nnn.                                                        *)
Encodings == {"legacy", "numeric"}

B(enc, rate) ==
    IF enc = "numeric" THEN rate
    ELSE CASE rate = 4800 -> 12
           [] rate = 9600 -> 13
           [] rate = 19200 -> 14
           [] rate = 38400 -> 15
           [] rate = 57600 -> 4097
           [] rate = 115200 -> 4098
           [] rate = 230400 -> 4099

baudMap == << [name |-> Str4800, rate |-> 4800],
              [name |-> Str9600, rate |-> 9600],
              [name |-> Str19200, rate |-> 19200],
              [name |-> Str38400, rate |-> 38400],
              [name |-> Str57600, rate |-> 57600],
              [name |-> Str115200, rate |-> 115200],
              [name |-> Str230400, rate |-> 230400] >>

BaudSet(enc) == {B(enc, baudMap[i].rate) : i \in 1..Len(baudMap)}

\* mutant: the table names are compared as prefixes of the token
baudRateFromString_PrefixMatch(enc, str) ==
    IF str = NULL THEN [val |-> B(enc, 115200), warned |-> FALSE]
    ELSE IF \E i \in 1..Len(baudMap) : IsPrefix(baudMap[i].name, str)
         THEN LET i == CHOOSE j \in 1..Len(baudMap) :
                          IsPrefix(baudMap[j].name, str)
              IN [val |-> B(enc, baudMap[i].rate), warned |-> FALSE]
         ELSE [val |-> B(enc, 115200), warned |-> TRUE]

\* baudRateFromString: [val, warned]
baudRateFromString(enc, str) ==
    IF str = NULL THEN [val |-> B(enc, 115200), warned |-> FALSE]
    ELSE IF \E i \in 1..Len(baudMap) : baudMap[i].name = str
         THEN LET i == CHOOSE j \in 1..Len(baudMap) : baudMap[j].name = str
              IN [val |-> B(enc, baudMap[i].rate), warned |-> FALSE]
         ELSE [val |-> B(enc, 115200), warned |-> TRUE]

\* mutant: the token is compared as given, without toLower
parseBool_CaseSensitive(s) ==
    IF s = NULL THEN [val |-> 0, warned |-> FALSE]
    ELSE IF s = StrTrue \/ s = Str1 \/ s = StrYes
         THEN [val |-> 1, warned |-> FALSE]
         ELSE IF s = StrFalse \/ s = Str0 \/ s = StrNo
              THEN [val |-> 0, warned |-> FALSE]
              ELSE [val |-> 0, warned |-> TRUE]

\* parseBool: [val, warned]
parseBool(s) ==
    IF s = NULL THEN [val |-> 0, warned |-> FALSE]
    ELSE LET l == toLower(s)
         IN IF l = StrTrue \/ l = Str1 \/ l = StrYes
            THEN [val |-> 1, warned |-> FALSE]
            ELSE IF l = StrFalse \/ l = Str0 \/ l = StrNo
                 THEN [val |-> 0, warned |-> FALSE]
                 ELSE [val |-> 0, warned |-> TRUE]

-----------------------------------------------------------------------------
(* getopt_long(argc, argv, "t:b:f:h", longOpts, &longIndex) of the C       *)
(* library, in its default (permuting) mode: non-option elements are       *)
(* skipped, "--" ends the options, a long name may be abbreviated to an    *)
(* unambiguous prefix, a long option takes an argument only when attached  *)
(* with "=", and a short option with a required argument takes the rest of *)
(* its element or else the whole next element.                             *)
longOpts == << [name |-> StrTty, has_arg |-> "optional", val |-> "t"],
               [name |-> StrBaud, has_arg |-> "optional", val |-> "b"],
               [name |-> StrHwflow, has_arg |-> "optional", val |-> "f"],
               [name |-> StrHelp, has_arg |-> "no", val |-> "h"] >>

ShortWithArg == {"t", "b", "f"}

IsOption(e) == Len(e) >= 2 /\ e[1] = "-"

FirstOptIdx(a) ==
    IF \E i \in 1..Len(a) : IsOption(a[i])
    THEN CHOOSE i \in 1..Len(a) :
            IsOption(a[i]) /\ \A j \in 1..(i - 1) : ~IsOption(a[j])
    ELSE 0

EqIdx(b) ==
    IF \E i \in 1..Len(b) : b[i] = "="
    THEN CHOOSE i \in 1..Len(b) : b[i] = "=" /\ \A j \in 1..(i - 1) : b[j] # "="
    ELSE 0

LongMatches(nm) ==
    IF \E i \in 1..Len(longOpts) : longOpts[i].name = nm
    THEN {i \in 1..Len(longOpts) : longOpts[i].name = nm}
    ELSE {i \in 1..Len(longOpts) : IsPrefix(nm, longOpts[i].name)}

GetoptLong(body, rest) ==
    LET eq == EqIdx(body)
        nm == IF eq = 0 THEN body ELSE SubSeq(body, 1, eq - 1)
        attached == IF eq = 0 THEN NULL ELSE SubSeq(body, eq + 1, Len(body))
        m == LongMatches(nm)
    IN IF Cardinality(m) # 1
       THEN [opt |-> Unknown, optarg |-> NULL, args |-> rest, nextchar |-> <<>>]
       ELSE LET o == longOpts[CHOOSE i \in m : TRUE]
            IN IF o.has_arg = "no" /\ attached # NULL
               THEN [opt |-> Unknown, optarg |-> NULL, args |-> rest,
                     nextchar |-> <<>>]
               ELSE [opt |-> o.val, optarg |-> attached, args |-> rest,
                     nextchar |-> <<>>]

GetoptShort(a, nc) ==
    LET c == Head(nc)
        r == Tail(nc)
    IN IF c \in ShortWithArg
       THEN IF r # <<>>
            THEN [opt |-> c, optarg |-> r, args |-> a, nextchar |-> <<>>]
            ELSE IF a = <<>>
                 THEN [opt |-> Unknown, optarg |-> NULL, args |-> a,
                       nextchar |-> <<>>]
                 ELSE [opt |-> c, optarg |-> Head(a), args |-> Tail(a),
                       nextchar |-> <<>>]
       ELSE IF c = "h"
            THEN [opt |-> "h", optarg |-> NULL, args |-> a, nextchar |-> r]
            ELSE [opt |-> Unknown, optarg |-> NULL, args |-> a, nextchar |-> r]

getopt_long(a, nc) ==
    IF nc # <<>> THEN GetoptShort(a, nc)
    ELSE LET i == FirstOptIdx(a)
         IN IF i = 0 \/ a[i] = DashDash
            THEN [opt |-> EndOfOptions, optarg |-> NULL, args |-> <<>>,
                  nextchar |-> <<>>]
            ELSE LET e == a[i]
                     rest == SubSeq(a, i + 1, Len(a))
                 IN IF e[2] = "-"
                    THEN GetoptLong(SubSeq(e, 3, Len(e)), rest)
                    ELSE GetoptShort(rest, Tail(e))

-----------------------------------------------------------------------------
(* parseArgs: one turn of its while loop, i.e. one getopt_long call and    *)
(* the switch on its result.  done tells whether parseArgs returned in this *)
(* turn, and ret is then its return value: 1 for success, 0 when usage was  *)
(* printed.                                                                 *)

\* char *val = optarg; if (!val && optind < argc && argv[optind][0] != '-')
\*     val = argv[optind++];
OptionValue(g) ==
    IF g.optarg = NULL /\ g.args # <<>>
       /\ (Len(Head(g.args)) = 0 \/ Head(g.args)[1] # "-")
    THEN [val |-> Head(g.args), args |-> Tail(g.args)]
    ELSE [val |-> g.optarg, args |-> g.args]


\* mutant: the help/default case prints usage and reports success
usageCase_ReturnsSuccess(same, rest) ==
    [same EXCEPT !.done = TRUE, !.ret = 1, !.args = rest, !.usage = TRUE]

\* case 'h': default: printUsage(argv[0]); return 0;
usageCase(same, rest) ==
    [same EXCEPT !.done = TRUE, !.ret = 0, !.args = rest, !.usage = TRUE]

parseArgsStep(cfg, a, nc, enc) ==
    LET g == getopt_long(a, nc)
        v == OptionValue(g)
        same == [done |-> FALSE, ret |-> 1, cfg |-> cfg, args |-> v.args,
                 nextchar |-> g.nextchar, warned |-> FALSE, usage |-> FALSE,
                 opt |-> g.opt, val |-> v.val]
    IN CASE g.opt = EndOfOptions ->
              [same EXCEPT !.done = TRUE, !.ret = 1, !.args = g.args]
         [] g.opt = "t" ->
              [same EXCEPT !.cfg.path =
                  IF v.val # NULL THEN strncpy(v.val, SERIAL_PATH_MAX)
                  ELSE EmptyStr]
         [] g.opt = "b" ->
              IF v.val # NULL
              THEN LET b == baudRateFromString(enc, v.val)
                   IN [same EXCEPT !.cfg.baud = b.val, !.warned = b.warned]
              ELSE same
         [] g.opt = "f" ->
              IF v.val # NULL
              THEN LET pb == parseBool(v.val)
                   IN [same EXCEPT !.cfg.hwflow = pb.val, !.warned = pb.warned]
              ELSE same
         [] OTHER -> usageCase(same, g.args)

-----------------------------------------------------------------------------
(* termios.  A settings record holds the fields platform_init touches.     *)
(* cfsetospeed/cfsetispeed return EINVAL and leave the settings alone when  *)
(* the speed is not one the encoding knows; platform_init ignores their    *)
(* return value.                                                            *)
ValidSpeed(enc, speed) ==
    enc = "numeric" \/ speed \in (0..15) \cup (4096..4111)

cfsetospeed(t, speed, enc) ==
    IF ValidSpeed(enc, speed) THEN [t EXCEPT !.ospeed = speed] ELSE t

cfsetispeed(t, speed, enc) ==
    IF ValidSpeed(enc, speed) THEN [t EXCEPT !.ispeed = speed] ELSE t

\* settings a device may be found in (what tcgetattr reads back)
CookedLine(enc) ==
    [ospeed |-> B(enc, 9600), ispeed |-> B(enc, 9600), parenb |-> FALSE,
     cstopb |-> FALSE, csize |-> "CS8", crtscts |-> FALSE, cread |-> TRUE,
     clocal |-> FALSE, icanon |-> TRUE, echo |-> TRUE, echoe |-> TRUE,
     isig |-> TRUE, ixon |-> TRUE, ixoff |-> FALSE, ixany |-> FALSE,
     opost |-> TRUE]

OddLine(enc) ==
    [ospeed |-> B(enc, 4800), ispeed |-> B(enc, 4800), parenb |-> TRUE,
     cstopb |-> TRUE, csize |-> "CS7", crtscts |-> TRUE, cread |-> FALSE,
     clocal |-> FALSE, icanon |-> FALSE, echo |-> FALSE, echoe |-> FALSE,
     isig |-> FALSE, ixon |-> TRUE, ixoff |-> TRUE, ixany |-> TRUE,
     opost |-> FALSE]

DeviceLines(enc) == {CookedLine(enc), OddLine(enc)}

\* platform_init lines 109-127: the settings it asks tcsetattr to apply
ConfigureLine(t0, cfg, enc) ==
    LET t1 == cfsetispeed(cfsetospeed(t0, cfg.baud, enc), cfg.baud, enc)
    IN [t1 EXCEPT !.parenb = FALSE, !.cstopb = FALSE, !.csize = "CS8",
                  !.crtscts = (cfg.hwflow # 0), !.cread = TRUE,
                  !.clocal = TRUE, !.icanon = FALSE, !.echo = FALSE,
                  !.echoe = FALSE, !.isig = FALSE, !.ixon = FALSE,
                  !.ixoff = FALSE, !.ixany = FALSE, !.opost = FALSE]

-----------------------------------------------------------------------------
(* platform_init.  cfg is serial_device, os the descriptors of the         *)
(* process, env what the operating system answers: which call fails (if    *)
(* any), the descriptor a successful open returns, the slave name ptsname  *)
(* returns and the settings tcgetattr reads.                                *)
PtyOutcomes == {"openpt_fail", "grantpt_fail", "unlockpt_fail", "ptsname_fail", "ok"}
DevOutcomes == {"open_fail", "tcgetattr_fail", "tcsetattr_fail", "ok"}

OsOpen(os, f, master) ==
    [os EXCEPT !.openFds = @ \cup {f},
               !.ptyMasters = IF master THEN @ \cup {f} ELSE @,
               !.rx = <<>>]

OsClose(os, f) ==
    [os EXCEPT !.openFds = @ \ {f}, !.ptyMasters = @ \ {f},
               !.line = IF f \in os.openFds THEN <<>> ELSE @,
               !.rx = IF f \in os.openFds THEN <<>> ELSE @,
               !.badClose = @ \/ f \notin os.openFds]



\* mutant: the slave name is not copied into serial_device.path
platform_init_pty_NoName(cfg, os, env) ==
    IF env.outcome = "openpt_fail"
    THEN [cfg |-> cfg, os |-> os]
    ELSE LET master_fd == env.newfd
             os1 == OsOpen(os, master_fd, TRUE)
         IN IF env.outcome \in {"grantpt_fail", "unlockpt_fail", "ptsname_fail"}
            THEN [cfg |-> cfg, os |-> OsClose(os1, master_fd)]
            ELSE [cfg |-> [cfg EXCEPT !.fd = master_fd], os |-> os1]

\* mutant: a failed grantpt/unlockpt/ptsname returns without close(master_fd)
platform_init_pty_Leak(cfg, os, env) ==
    IF env.outcome = "openpt_fail"
    THEN [cfg |-> cfg, os |-> os]
    ELSE LET master_fd == env.newfd
             os1 == OsOpen(os, master_fd, TRUE)
         IN IF env.outcome \in {"grantpt_fail", "unlockpt_fail", "ptsname_fail"}
            THEN [cfg |-> cfg, os |-> os1]
            ELSE [cfg |-> [cfg EXCEPT !.path = strncpy(env.slave, SERIAL_PATH_MAX),
                                      !.fd = master_fd],
                  os |-> os1]

platform_init_pty(cfg, os, env) ==
    IF env.outcome = "openpt_fail"
    THEN [cfg |-> cfg, os |-> os]
    ELSE LET master_fd == env.newfd
             os1 == OsOpen(os, master_fd, TRUE)
         IN IF env.outcome \in {"grantpt_fail", "unlockpt_fail", "ptsname_fail"}
            THEN [cfg |-> cfg, os |-> OsClose(os1, master_fd)]
            ELSE [cfg |-> [cfg EXCEPT !.path = strncpy(env.slave, SERIAL_PATH_MAX),
                                      !.fd = master_fd],
                  os |-> os1]


\* mutant: a failed tcgetattr/tcsetattr closes the descriptor and leaves it
\* in serial_device.fd
platform_init_dev_Dangling(cfg, os, env, enc) ==
    IF env.outcome = "open_fail"
    THEN [cfg |-> [cfg EXCEPT !.fd = ClosedFd], os |-> os]
    ELSE LET os1 == [OsOpen(os, env.newfd, FALSE) EXCEPT !.line = <<env.t0>>]
             cfg1 == [cfg EXCEPT !.fd = env.newfd]
         IN IF env.outcome \in {"tcgetattr_fail", "tcsetattr_fail"}
            THEN [cfg |-> cfg1, os |-> OsClose(os1, cfg1.fd)]
            ELSE [cfg |-> cfg1,
                  os |-> [os1 EXCEPT !.line = <<ConfigureLine(env.t0, cfg1, enc)>>]]

\* mutant: the name the descriptor resolves to is copied over the given path
platform_init_dev_ClobbersPath(cfg, os, env, enc) ==
    IF env.outcome = "open_fail"
    THEN [cfg |-> [cfg EXCEPT !.fd = ClosedFd], os |-> os]
    ELSE LET os1 == [OsOpen(os, env.newfd, FALSE) EXCEPT !.line = <<env.t0>>]
             cfg1 == [cfg EXCEPT !.fd = env.newfd]
         IN IF env.outcome \in {"tcgetattr_fail", "tcsetattr_fail"}
            THEN [cfg |-> [cfg1 EXCEPT !.fd = ClosedFd],
                  os |-> OsClose(os1, cfg1.fd)]
            ELSE [cfg |-> [cfg1 EXCEPT !.path = strncpy(env.slave, SERIAL_PATH_MAX)],
                  os |-> [os1 EXCEPT !.line = <<ConfigureLine(env.t0, cfg1, enc)>>]]

platform_init_dev(cfg, os, env, enc) ==
    IF env.outcome = "open_fail"
    THEN [cfg |-> [cfg EXCEPT !.fd = ClosedFd], os |-> os]
    ELSE LET os1 == [OsOpen(os, env.newfd, FALSE) EXCEPT !.line = <<env.t0>>]
             cfg1 == [cfg EXCEPT !.fd = env.newfd]
         IN IF env.outcome \in {"tcgetattr_fail", "tcsetattr_fail"}
            THEN [cfg |-> [cfg1 EXCEPT !.fd = ClosedFd],
                  os |-> OsClose(os1, cfg1.fd)]
            ELSE [cfg |-> cfg1,
                  os |-> [os1 EXCEPT !.line = <<ConfigureLine(env.t0, cfg1, enc)>>]]

platform_init(cfg, os, env, enc) ==
    IF cfg.path = EmptyStr
    THEN platform_init_pty(cfg, os, env)
    ELSE platform_init_dev(cfg, os, env, enc)

-----------------------------------------------------------------------------
(* Readiness queries and byte I/O.  sel is select()'s answer: "ready",     *)
(* "idle" (0) or "error" (-1, for instance EINTR when a signal arrives).   *)
SelectAnswers(readable) ==
    {"error"} \cup (IF readable THEN {"ready"} ELSE {"idle"})


\* mutant: the readiness query lacks the closed-handle guard
platform_serial_has_data_NoGuard(cfg, sel) ==
    [ret |-> IF sel = "ready" THEN 1 ELSE 0, selected |-> TRUE]

platform_serial_has_data(cfg, sel) ==
    IF cfg.fd = ClosedFd THEN [ret |-> 0, selected |-> FALSE]
    ELSE [ret |-> IF sel = "ready" THEN 1 ELSE 0, selected |-> TRUE]


\* mutant: the readiness query lacks the closed-handle guard
platform_serial_can_write_NoGuard(cfg, sel) ==
    [ret |-> IF sel = "ready" THEN 1 ELSE 0, selected |-> TRUE]

platform_serial_can_write(cfg, sel) ==
    IF cfg.fd = ClosedFd THEN [ret |-> 0, selected |-> FALSE]
    ELSE [ret |-> IF sel = "ready" THEN 1 ELSE 0, selected |-> TRUE]

\* mutant: a failed read returns the byte variable as it is, unset
platform_serial_read_byte_Garbage(cfg, os, ok) ==
    IF cfg.fd \in os.openFds /\ os.rx # <<>> /\ ok
    THEN [ret |-> Head(os.rx), os |-> [os EXCEPT !.rx = Tail(@)], got |-> TRUE,
          cfg |-> cfg]
    ELSE [ret |-> 1, os |-> os, got |-> FALSE, cfg |-> cfg]

\* read(fd, &byte, 1): ok is FALSE when the call fails although data is there
platform_serial_read_byte(cfg, os, ok) ==
    IF cfg.fd \in os.openFds /\ os.rx # <<>> /\ ok
    THEN [ret |-> Head(os.rx), os |-> [os EXCEPT !.rx = Tail(@)], got |-> TRUE,
          cfg |-> cfg]
    ELSE [ret |-> 0, os |-> os, got |-> FALSE, cfg |-> cfg]

\* mutant: a failed write gives the descriptor up
platform_serial_write_byte_ClosesOnFail(cfg, os, b, ok) ==
    IF cfg.fd \in os.openFds /\ ok
    THEN [cfg |-> cfg, wrote |-> TRUE, selected |-> FALSE]
    ELSE [cfg |-> [cfg EXCEPT !.fd = ClosedFd], wrote |-> FALSE,
          selected |-> FALSE]

\* write(fd, &b, 1): nothing of serial_device changes either way, and no
\* select() is made before the write
platform_serial_write_byte(cfg, os, b, ok) ==
    [cfg |-> cfg, wrote |-> (cfg.fd \in os.openFds /\ ok), selected |-> FALSE]


\* mutant: main returns without the close-and-reset block
shutdown_Skip(cfg, os) == [cfg |-> cfg, os |-> os, closed |-> FALSE]

\* mutant: teardown closes the descriptor and does not reset the handle
shutdown_NoReset(cfg, os) ==
    IF cfg.fd # ClosedFd
    THEN [cfg |-> cfg, os |-> OsClose(os, cfg.fd), closed |-> TRUE]
    ELSE [cfg |-> cfg, os |-> os, closed |-> FALSE]

\* main.c lines 278-282
shutdown(cfg, os) ==
    IF cfg.fd # ClosedFd
    THEN [cfg |-> [cfg EXCEPT !.fd = ClosedFd], os |-> OsClose(os, cfg.fd),
          closed |-> TRUE]
    ELSE [cfg |-> cfg, os |-> os, closed |-> FALSE]

-----------------------------------------------------------------------------
(* Inputs.                                                                  *)
ArgElems ==
    { <<"-", "-", "t", "t", "y">>,
      <<"-", "-", "t", "t", "y", "=", "/", "d">>,
      <<"-", "-", "b", "a", "u", "d">>,
      <<"-", "-", "h", "w", "f", "l", "o", "w">>,
      <<"-", "-", "h", "e", "l", "p">>,
      <<"-", "-", "b", "o", "g", "u", "s">>,
      <<"-", "t">>, <<"-", "b">>, <<"-", "h">>, <<"-", "x">>,
      DashDash,
      <<"/", "d">>, Str9600, <<"T", "R", "U", "E">>, <<"b", "o", "g", "u", "s">> }

ArgLists == UNION {[1..n -> ArgElems] : n \in 0..MaxArgs}

Signals == {"SIGINT", "SIGTERM"}
Fds == {3, 4}
Bytes == {0, 126}
SlaveNames == { <<"/", "p", "t", "s", "0">> }

\* an element the option scanner would report as help or as unrecognized
\* if it scanned it as an option on its own
IsHelpOrUnknownElem(e) ==
    /\ IsOption(e)
    /\ e # DashDash
    /\ getopt_long(<<e, <<"v">>>>, <<>>).opt \in {"h", Unknown}

Terminal == {"done", "exit_fail", "killed"}

\* the state main starts in, for an argument list drawn from lists
InitFrom(lists) ==
    /\ args \in lists
    /\ nextchar = <<>>
    /\ pc = "install_int"
    /\ installed = {}
    /\ interrupted = 0
    /\ sigCount = 0
    /\ serial_device = [baud |-> DefaultBaud, hwflow |-> 0, path |-> EmptyStr,
                        fd |-> ClosedFd]
    /\ libc \in Encodings
    /\ pldm \in BOOLEAN
    /\ sys = [openFds |-> {}, ptyMasters |-> {}, line |-> <<>>, rx |-> <<>>,
             badClose |-> FALSE]
    /\ exitStatus = <<>>
    /\ hist = [hadHelp |-> \E i \in 1..Len(args) : IsHelpOrUnknownElem(args[i]),
               firstFatal |-> Len(args) > 0 /\ IsHelpOrUnknownElem(args[1]),
               lastOpt |-> "none", usage |-> FALSE, warned |-> FALSE,
               initCount |-> 0, outcome |-> "none", pathAtInit |-> NULL,
               shutdownCount |-> 0, closes |-> 0, iterated |-> FALSE,
               startsAfterInt |-> 0, iterCalls |-> <<>>, iterAns |-> <<>>,
               readOnClosed |-> FALSE, selectOnClosed |-> FALSE,
               fresh |-> FALSE, lastWrite |-> "none", lastVal |-> NULL]

Init == InitFrom(ArgLists)

-----------------------------------------------------------------------------
(* main(), lines 237-238: signal(SIGINT, ...), signal(SIGTERM, ...).       *)
InstallSigint ==
    /\ pc = "install_int"
    /\ installed' = installed \cup {"SIGINT"}
    /\ pc' = "install_term"
    /\ UNCHANGED <<args, nextchar, interrupted, sigCount, serial_device, libc,
                   pldm, sys, exitStatus, hist>>

InstallSigterm ==
    /\ pc = "install_term"
    /\ installed' = installed \cup {"SIGTERM"}
    /\ pc' = "parse"
    /\ UNCHANGED <<args, nextchar, interrupted, sigCount, serial_device, libc,
                   pldm, sys, exitStatus, hist>>

\* mutant: the handler flips the flag
signalHandler_Toggles(flag) == 1 - flag

\* mutant: the handler counts the deliveries
signalHandler_Counts(flag) == flag + 1

\* what signalHandler does to the flag
signalHandler(flag) == 1

\* Delivery of SIGINT or SIGTERM: signalHandler when it is installed, the
\* default disposition (the process is terminated) before that.
Signal(sig) ==
    /\ pc \notin Terminal
    /\ sigCount < MaxSignals
    /\ sigCount' = sigCount + 1
    /\ IF sig \in installed
       THEN /\ interrupted' = signalHandler(interrupted)
            /\ pc' = pc
       ELSE /\ pc' = "killed"
            /\ interrupted' = interrupted
    /\ UNCHANGED <<args, nextchar, installed, serial_device, libc, pldm, sys,
                   exitStatus, hist>>

\* main(), line 241: one turn of parseArgs's loop; on its return either
\* "return EXIT_FAILURE" or on to mctp_init (the banner of lines 243-250
\* only prints)
ParseArgs ==
    /\ pc = "parse"
    /\ LET r == parseArgsStep(serial_device, args, nextchar, libc)
       IN /\ serial_device' = r.cfg
          /\ args' = r.args
          /\ nextchar' = r.nextchar
          /\ hist' = [hist EXCEPT !.lastOpt = r.opt,
                                  !.lastVal = IF r.opt \in ShortWithArg
                                              THEN r.val ELSE @,
                                  !.usage = @ \/ r.usage,
                                  !.warned = @ \/ r.warned,
                                  !.fresh = FALSE]
          /\ pc' = IF ~r.done THEN "parse"
                   ELSE IF r.ret # 0 THEN "init" ELSE "exit_fail"
          /\ exitStatus' = IF r.done /\ r.ret = 0 THEN <<EXIT_FAILURE>>
                           ELSE exitStatus
    /\ UNCHANGED <<installed, interrupted, sigCount, libc, pldm, sys>>


\* main(), line 253: mctp_init(), which calls platform_init once
\* (platform.c, lines 55-61)
MctpInit ==
    /\ pc = "init"
    /\ \E env \in [outcome : IF serial_device.path = EmptyStr
                             THEN PtyOutcomes ELSE DevOutcomes,
                   newfd : Fds \ sys.openFds,
                   slave : SlaveNames,
                   t0 : DeviceLines(libc)] :
          LET r == platform_init(serial_device, sys, env, libc)
          IN /\ serial_device' = r.cfg
             /\ sys' = r.os
             /\ hist' = [hist EXCEPT !.initCount = Min(@ + 1, 2),
                                     !.outcome = env.outcome,
                                     !.pathAtInit = serial_device.path,
                                     !.fresh = TRUE]
    /\ pc' = "loop"
    /\ UNCHANGED <<args, nextchar, installed, interrupted, sigCount, libc, pldm,
                   exitStatus>>


\* mutant: the loop condition ignores the flag
loopContinues_IgnoresFlag(flag) == TRUE

\* main(), line 255: while (!interrupted)
loopContinues(flag) == flag = 0

LoopCheck ==
    /\ pc = "loop"
    /\ IF loopContinues(interrupted)
       THEN /\ pc' = "update"
            /\ hist' = [hist EXCEPT !.iterated = TRUE,
                                    !.iterCalls = <<>>,
                                    !.iterAns = <<>>,
                                    !.fresh = FALSE,
                                    !.startsAfterInt =
                                        IF interrupted # 0 THEN Min(@ + 1, 2) ELSE @]
       ELSE /\ pc' = "teardown"
            /\ hist' = [hist EXCEPT !.fresh = FALSE]
    /\ UNCHANGED <<args, nextchar, installed, interrupted, sigCount,
                   serial_device, libc, pldm, sys, exitStatus>>

\* main(), line 257: mctp_update(), the framer step of the external
\* processor: it polls platform_serial_has_data and reads a byte when that
\* reports data.
MctpUpdate ==
    /\ pc = "update"
    /\ \E sel \in SelectAnswers(sys.rx # <<>>), ok \in BOOLEAN :
          LET hd == platform_serial_has_data(serial_device, sel)
              rd == platform_serial_read_byte(serial_device, sys, ok)
          IN /\ sys' = IF hd.ret # 0 THEN rd.os ELSE sys
             /\ serial_device' = IF hd.ret # 0 THEN rd.cfg ELSE serial_device
             /\ hist' = [hist EXCEPT
                   !.iterCalls = Append(@, "update"),
                   !.selectOnClosed =
                       @ \/ (hd.selected /\ serial_device.fd = ClosedFd),
                   !.readOnClosed =
                       @ \/ (hd.ret # 0 /\ serial_device.fd = ClosedFd)]
    /\ pc' = "avail"
    /\ UNCHANGED <<args, nextchar, installed, interrupted, sigCount, libc, pldm,
                   exitStatus>>

\* main(), line 260: if (mctp_is_packet_available())
IsPacketAvailable ==
    /\ pc = "avail"
    /\ \E available \in BOOLEAN :
          /\ pc' = IF available THEN "is_control" ELSE "loop"
          /\ hist' = [hist EXCEPT !.iterCalls = Append(@, "available"),
                                  !.iterAns = Append(@, available)]
    /\ UNCHANGED <<args, nextchar, installed, interrupted, sigCount,
                   serial_device, libc, pldm, sys, exitStatus>>

\* mutant: the test of the first branch is inverted
afterControlQuery_Inverted(isControl, withPldm) ==
    IF ~isControl THEN "control"
    ELSE IF withPldm THEN "is_pldm" ELSE "ignore"

\* main(), lines 261-272: the branch taken after mctp_is_control_packet()
afterControlQuery(isControl, withPldm) ==
    IF isControl THEN "control"
    ELSE IF withPldm THEN "is_pldm" ELSE "ignore"

IsControlPacket ==
    /\ pc = "is_control"
    /\ \E isControl \in BOOLEAN :
          /\ pc' = afterControlQuery(isControl, pldm)
          /\ hist' = [hist EXCEPT !.iterCalls = Append(@, "is_control"),
                                  !.iterAns = Append(@, isControl)]
    /\ UNCHANGED <<args, nextchar, installed, interrupted, sigCount,
                   serial_device, libc, pldm, sys, exitStatus>>

\* main(), line 265 (PLDM_SUPPORT): else if (mctp_is_pldm_packet())
IsPldmPacket ==
    /\ pc = "is_pldm"
    /\ \E isPldm \in BOOLEAN :
          /\ pc' = IF isPldm THEN "pldm" ELSE "ignore"
          /\ hist' = [hist EXCEPT !.iterCalls = Append(@, "is_pldm"),
                                  !.iterAns = Append(@, isPldm)]
    /\ UNCHANGED <<args, nextchar, installed, interrupted, sigCount,
                   serial_device, libc, pldm, sys, exitStatus>>


\* mutant: the else before the last branch is missing, so a handled control
\* packet is also ignored
afterHandler_FallsThrough(call) ==
    IF call = "process_control" THEN "ignore" ELSE "loop"

\* main(), lines 261-273: one branch of the if / else-if / else chain is
\* taken, and the loop turns after it
afterHandler(call) == "loop"

\* A handler of the external processor: it may send a byte through
\* platform_serial_write_byte.
Handler(call) ==
    /\ \E send \in BOOLEAN, b \in Bytes, ok \in BOOLEAN :
          LET w == platform_serial_write_byte(serial_device, sys, b, ok)
          IN /\ serial_device' = IF send THEN w.cfg ELSE serial_device
             /\ hist' = [hist EXCEPT
                   !.iterCalls = Append(@, call),
                   !.lastWrite = IF ~send THEN @
                                 ELSE IF w.wrote THEN "ok" ELSE "failed"]
    /\ pc' = afterHandler(call)
    /\ UNCHANGED <<args, nextchar, installed, interrupted, sigCount, libc,
                   pldm, sys, exitStatus>>

\* main(), line 262: mctp_process_control_message()
ProcessControl == pc = "control" /\ Handler("process_control")

\* main(), line 266: pldm_process_packet()
ProcessPldm == pc = "pldm" /\ Handler("process_pldm")

\* main(), line 271: mctp_ignore_packet()
IgnorePacket ==
    /\ pc = "ignore"
    /\ hist' = [hist EXCEPT !.iterCalls = Append(@, "ignore")]
    /\ pc' = afterHandler("ignore")
    /\ UNCHANGED <<args, nextchar, installed, interrupted, sigCount,
                   serial_device, libc, pldm, sys, exitStatus>>

\* main(), lines 278-284: close the descriptor if open, return 0
Teardown ==
    /\ pc = "teardown"
    /\ LET r == shutdown(serial_device, sys)
       IN /\ serial_device' = r.cfg
          /\ sys' = r.os
          /\ hist' = [hist EXCEPT !.shutdownCount = Min(@ + 1, 2),
                                  !.closes = Min(@ + (IF r.closed THEN 1 ELSE 0), 2)]
    /\ pc' = "done"
    /\ exitStatus' = <<0>>
    /\ UNCHANGED <<args, nextchar, installed, interrupted, sigCount, libc,
                   pldm>>

\* The peer of the link sends a byte.
PeerWrite ==
    /\ pc \notin Terminal
    /\ serial_device.fd \in sys.openFds
    /\ Len(sys.rx) < MaxPending
    /\ \E b \in Bytes : sys' = [sys EXCEPT !.rx = Append(@, b)]
    /\ hist' = [hist EXCEPT !.fresh = FALSE]
    /\ UNCHANGED <<args, nextchar, pc, installed, interrupted, sigCount,
                   serial_device, libc, pldm, exitStatus>>

Main ==
    \/ InstallSigint
    \/ InstallSigterm
    \/ ParseArgs
    \/ MctpInit
    \/ LoopCheck
    \/ MctpUpdate
    \/ IsPacketAvailable
    \/ IsControlPacket
    \/ IsPldmPacket
    \/ ProcessControl
    \/ ProcessPldm
    \/ IgnorePacket
    \/ Teardown

Next ==
    \/ Main
    \/ \E sig \in Signals : Signal(sig)
    \/ PeerWrite

Spec == Init /\ [][Next]_vars

-----------------------------------------------------------------------------
(* Runs of main on a single --baud or --hwflow option, the token given in  *)
(* each of the ways getopt_long accepts.                                    *)
toupper(c) ==
    IF \E i \in 1..26 : LowerChars[i] = c
    THEN UpperChars[CHOOSE i \in 1..26 : LowerChars[i] = c]
    ELSE c

\* the spellings of w in upper and lower case letters
CaseVariants(w) ==
    { [i \in 1..Len(w) |-> IF i \in U THEN toupper(w[i]) ELSE w[i]] :
        U \in SUBSET (1..Len(w)) }

RecognizedBaudTokens ==
    {Str4800, Str9600, Str19200, Str38400, Str57600, Str115200, Str230400}

OtherBaudTokens ==
    { <<"b", "o", "g", "u", "s">>, EmptyStr,
      <<" ", "9", "6", "0", "0">>, <<"9", "6", "0", "0", " ">>,
      <<"9", "6", "0", "0", "0">>, <<"9", "6", "0">>,
      <<"B", "9", "6", "0", "0">>, <<"b", "9", "6", "0", "0">>,
      <<"1", "1", "5", "2", "0", "0", "B", "P", "S">>,
      <<"1", "1", "5", "K">>, <<"1", "1", "5", "k">> }

BaudTokens == RecognizedBaudTokens \cup OtherBaudTokens

TrueTokens == CaseVariants(StrTrue) \cup CaseVariants(StrYes) \cup {Str1}
FalseTokens == CaseVariants(StrFalse) \cup CaseVariants(StrNo) \cup {Str0}

OtherBoolTokens ==
    { <<"m", "a", "y", "b", "e">>, EmptyStr, <<"o", "n">>, <<"O", "F", "F">>,
      <<"2">>, <<"t">>, <<"T", "R", "U">>, <<"t", "r", "u", "e", "e">>,
      <<" ", "t", "r", "u", "e">>, <<"Y", "e", "s", " ">>, <<"n">>,
      <<"0", "0">> }

BoolTokens == TrueTokens \cup FalseTokens \cup OtherBoolTokens

\* --name=token, --name token, -c token and -ctoken
OptionForms(name, c, tok) ==
    { << <<"-", "-">> \o name \o <<"=">> \o tok >>,
      << <<"-", "-">> \o name, tok >>,
      << <<"-", c>>, tok >> }
    \cup (IF tok = EmptyStr THEN {} ELSE { << <<"-", c>> \o tok >> })

TokenLists ==
    UNION ( {OptionForms(StrBaud, "b", tok) : tok \in BaudTokens}
            \cup {OptionForms(StrHwflow, "f", tok) : tok \in BoolTokens} )

TokenInit == InitFrom(TokenLists)

TokenSpec == TokenInit /\ [][Next]_vars


-----------------------------------------------------------------------------
(* Properties.                                                              *)
Closed == serial_device.fd = ClosedFd

LoopPcs == {"loop", "update", "avail", "is_control", "is_pldm", "control",
            "pldm", "ignore"}

InLoop == pc \in LoopPcs

AllSelectAnswers == {"ready", "idle", "error"}

C1_Safe ==
    /\ hist.startsAfterInt = 0
    /\ hist.shutdownCount <= 1
    /\ hist.closes <= 1
    /\ ~sys.badClose
    /\ pc = "teardown" => interrupted = 1
    /\ pc = "done" => /\ interrupted = 1
                      /\ hist.shutdownCount = 1
                      /\ Closed
                      /\ sys.openFds = {}
    /\ Closed => shutdown(serial_device, sys) =
                    [cfg |-> serial_device, os |-> sys, closed |-> FALSE]

\* Steps main() still has to take before it returns once the flag is set.
Rank(p) ==
    CASE p = "done" -> 0
      [] p = "teardown" -> 1
      [] p = "loop" -> 2
      [] p \in {"control", "pldm", "ignore"} -> 3
      [] p = "is_pldm" -> 4
      [] p = "is_control" -> 5
      [] p = "avail" -> 6
      [] p = "update" -> 7
      [] OTHER -> 8

\* C1: once the interrupt flag is set no new loop iteration starts: every
\* step of main then brings it closer to its return, and main can always
\* take its next step; the teardown block runs exactly once and leaves
\* fd = -1 with nothing open; shutdown applied to a Closed handle changes
\* nothing and closes nothing.
C1_InterruptShutdown ==
    /\ []C1_Safe
    /\ []((InLoop \/ pc = "teardown") => ENABLED Main)
    /\ [][(interrupted = 1 /\ (InLoop \/ pc = "teardown") /\ pc' # pc)
             => Rank(pc') < Rank(pc)]_vars

C1_Witness ==
    /\ pc = "done"
    /\ interrupted = 1
    /\ hist.iterated
    /\ hist.closes = 1
    /\ Closed

\* C2: fd is -1 and the process holds no open descriptor, or fd is the one
\* descriptor the process holds; close is never applied to a descriptor
\* that is not open.
C2_HandleOwnsResource ==
    /\ sys.openFds = IF Closed THEN {} ELSE {serial_device.fd}
    /\ ~sys.badClose

C2_Witness ==
    /\ hist.outcome = "tcsetattr_fail"
    /\ pc = "loop"
    /\ Closed
    /\ sys.openFds = {}

\* C3: after an initialize in which some step failed, fd is -1, nothing the
\* attempt opened is still open, and the process runs on: it is in the loop
\* or, only once interrupted, in teardown or returned with status 0.
C3_FailedInitLeavesClosed ==
    (hist.initCount > 0 /\ hist.outcome # "ok") =>
        /\ Closed
        /\ sys.openFds = {}
        /\ ~sys.badClose
        /\ pc \in LoopPcs \cup {"teardown", "done"}
        /\ pc \in {"teardown", "done"} => interrupted = 1
        /\ exitStatus = IF pc = "done" THEN <<0>> ELSE <<>>

C3_Witness ==
    /\ hist.outcome = "grantpt_fail"
    /\ hist.iterated
    /\ pc = "update"
    /\ Closed

\* C4: fd leaves -1 only in the step that runs platform_init, which runs at
\* most once; after initialize a Closed handle stays Closed; when main has
\* returned the handle is Closed.
C4_HandleLifecycle ==
    /\ [][/\ (Closed /\ serial_device'.fd # ClosedFd) =>
                 (pc = "init" /\ hist.initCount = 0)
          /\ (hist.initCount > 0 /\ Closed) => serial_device'.fd = ClosedFd
          /\ hist'.initCount <= 1]_vars
    /\ [](pc = "done" => Closed)

C4_Witness ==
    /\ pc = "done"
    /\ hist.initCount = 1
    /\ hist.outcome = "ok"
    /\ hist.pathAtInit # EmptyStr
    /\ hist.closes = 1
    /\ Closed

Degraded == hist.initCount > 0 /\ Closed

\* C5: with the handle Closed after initialization, platform_serial_has_data
\* returns 0 whatever select would answer; the process is in the loop or,
\* only once interrupted, in teardown or returned with status 0; main can
\* always take its next step; while the flag is clear every step stays in
\* the loop and the loop check starts another iteration; once the flag is
\* set every step brings main closer to its return, which is with status 0.
C5_DegradedLoop ==
    /\ [](Degraded =>
            /\ \A sel \in AllSelectAnswers :
                  platform_serial_has_data(serial_device, sel).ret = 0
            /\ pc \in LoopPcs \cup {"teardown", "done"}
            /\ pc \in {"teardown", "done"} => interrupted = 1
            /\ exitStatus = IF pc = "done" THEN <<0>> ELSE <<>>)
    /\ []((Degraded /\ pc # "done") => ENABLED Main)
    /\ [][(Degraded /\ pc' # pc) =>
             IF interrupted = 0
             THEN pc' \in LoopPcs /\ (pc = "loop" => pc' = "update")
             ELSE Rank(pc') < Rank(pc)
                  /\ (pc' = "done" => exitStatus' = <<0>>)]_vars

C5_Witness ==
    /\ hist.outcome = "open_fail"
    /\ Closed
    /\ hist.iterated
    /\ pc = "done"
    /\ exitStatus = <<0>>


PreInitPcs == {"install_int", "install_term", "parse", "exit_fail", "killed"}

NeverStarted ==
    /\ pc \in PreInitPcs
    /\ hist.initCount = 0
    /\ ~hist.iterated
    /\ Closed
    /\ sys.openFds = {}
    /\ exitStatus \in {<<>>, <<EXIT_FAILURE>>}

\* C6 as claimed: whenever argv holds --help, -h or an unrecognized option
\* as one of its elements, the run never leaves the start-up phase.
C6_AnyPositionHelpFails == hist.hadHelp => NeverStarted

\* C6: when getopt_long reports help or an unrecognized option, parseArgs
\* returns 0 and main returns EXIT_FAILURE at once, platform_init has not run
\* and never runs, no iteration has run and fd is -1; this is so in
\* particular when the first argument is --help, -h or an unrecognized
\* option; and up to the end of parsing fd is -1 and nothing is open.
C6_ScannedHelpFails ==
    /\ hist.lastOpt \in {"h", Unknown} =>
          /\ pc = "exit_fail"
          /\ exitStatus = <<EXIT_FAILURE>>
          /\ hist.usage
          /\ NeverStarted
    /\ hist.usage => hist.lastOpt \in {"h", Unknown}
    /\ hist.firstFatal => NeverStarted
    /\ pc \in PreInitPcs => NeverStarted
    /\ pc = "exit_fail" => exitStatus = <<EXIT_FAILURE>> /\ hist.usage

C6_Witness ==
    /\ pc = "exit_fail"
    /\ hist.lastOpt = "h"
    /\ serial_device.path # EmptyStr
    /\ ~hist.firstFatal

\* C7: with fd = -1 both readiness queries return 0 without calling select,
\* whatever select would answer, and the loop has neither called select nor
\* read a byte on a closed handle.
C7_ClosedNeverPolled ==
    /\ Closed =>
          \A sel \in AllSelectAnswers :
             /\ platform_serial_has_data(serial_device, sel) =
                   [ret |-> 0, selected |-> FALSE]
             /\ platform_serial_can_write(serial_device, sel) =
                   [ret |-> 0, selected |-> FALSE]
    /\ ~hist.selectOnClosed
    /\ ~hist.readOnClosed

C7_Witness ==
    /\ Closed
    /\ hist.initCount = 1
    /\ hist.outcome = "openpt_fail"
    /\ pc = "avail"
    /\ hist.iterCalls = <<"update">>

HasDataNow ==
    {platform_serial_has_data(serial_device, sel).ret :
        sel \in SelectAnswers(sys.rx # <<>>)}

SimulatedResult ==
    /\ ~Closed
    /\ sys.openFds = {serial_device.fd}
    /\ serial_device.fd \in sys.ptyMasters
    /\ serial_device.path # EmptyStr
    /\ serial_device.path # hist.pathAtInit
    /\ serial_device.path \in SlaveNames
    /\ HasDataNow = {0}

\* C8 as claimed: right after an initialize entered with an empty path, the
\* handle is the open master of a new pty, path is the slave name and no
\* data is reported.
C8_SimulatedAlwaysOpen ==
    (hist.fresh /\ hist.pathAtInit = EmptyStr) => SimulatedResult

\* C8: right after an initialize entered with an empty path in which
\* posix_openpt, grantpt, unlockpt and ptsname all succeeded, the handle is
\* the open master of a new pty, path is the slave name, which it was not
\* before, and platform_serial_has_data reports no data.
C8_SimulatedOpenOnSuccess ==
    (hist.fresh /\ hist.pathAtInit = EmptyStr /\ hist.outcome = "ok")
        => SimulatedResult

C8_Witness ==
    /\ hist.fresh
    /\ hist.pathAtInit = EmptyStr
    /\ hist.outcome = "ok"
    /\ pc = "loop"
    /\ ~Closed

\* C9 as claimed: baud is always one of the seven Bxxx values, and so is the
\* speed platform_init has in force on an opened device.
C9_BaudInEnumeratedSet ==
    /\ serial_device.baud \in BaudSet(libc)
    /\ (hist.fresh /\ hist.outcome = "ok" /\ hist.pathAtInit # EmptyStr) =>
          sys.line[1].ospeed = serial_device.baud

DispatchCalls == {"process_control", "process_pldm", "ignore"}

AllowedOrders(withPldm) ==
    IF withPldm
    THEN { <<"update", "available", "is_control", "process_control">>,
           <<"update", "available", "is_control", "is_pldm", "process_pldm">>,
           <<"update", "available", "is_control", "is_pldm", "ignore">> }
    ELSE { <<"update", "available", "is_control", "process_control">>,
           <<"update", "available", "is_control", "ignore">> }

\* C10: the calls one iteration has made to the external processor are an
\* initial part of: framer update, packet-available query, classification
\* queries, one dispatch; and at most one of them is a dispatch call.
C10_IterationOrder ==
    /\ \E o \in AllowedOrders(pldm) : IsPrefix(hist.iterCalls, o)
    /\ Cardinality({i \in 1..Len(hist.iterCalls) :
                       hist.iterCalls[i] \in DispatchCalls}) <= 1

C10_Witness ==
    /\ pc = "loop"
    /\ hist.iterCalls =
          <<"update", "available", "is_control", "is_pldm", "process_pldm">>

-----------------------------------------------------------------------------
\* the dispatch calls made so far in the current iteration
DispatchesMade ==
    SelectSeq(hist.iterCalls, LAMBDA c : c \in DispatchCalls)

\* the classification queries made so far in the current iteration
QueriesMade ==
    SelectSeq(hist.iterCalls, LAMBDA c : c \in {"is_control", "is_pldm"})

\* the body of the current iteration has run to its end
IterationOver ==
    pc \in {"loop", "teardown", "done"} /\ hist.iterCalls # <<>>

\* the dispatch the answers of the current iteration call for
DispatchFor(ans, withPldm) ==
    IF ans[2] THEN "process_control"
    ELSE IF withPldm /\ Len(ans) >= 3 /\ ans[3] THEN "process_pldm"
    ELSE "ignore"

\* C11: in an iteration in which a packet is available exactly one of the
\* three dispatch actions is taken: the control handler when the packet is a
\* control packet, otherwise (with extension support) the extension handler
\* when it is an extension packet, otherwise ignore; with no packet
\* available no classification query is made and nothing is dispatched.
C11_ExactlyOneDispatch ==
    /\ Len(DispatchesMade) <= 1
    /\ (hist.iterAns # <<>> /\ ~hist.iterAns[1]) =>
          /\ QueriesMade = <<>>
          /\ DispatchesMade = <<>>
          /\ Len(hist.iterAns) = 1
    /\ (IterationOver /\ hist.iterAns[1]) =>
          /\ DispatchesMade = <<DispatchFor(hist.iterAns, pldm)>>
          /\ (~pldm => "is_pldm" \notin {hist.iterCalls[i] :
                                           i \in 1..Len(hist.iterCalls)})

\* iterations have ended in the extension handler after a control query
\* answered no
C11_Witness ==
    /\ IterationOver
    /\ pldm
    /\ hist.iterAns = <<TRUE, FALSE, TRUE>>
    /\ DispatchesMade = <<"process_pldm">>

-----------------------------------------------------------------------------
\* a step in which signalHandler runs
HandlerRuns == sigCount' # sigCount /\ pc' # "killed"

\* C12: the interrupt flag is clear initially, is never cleared once set,
\* and the only step that sets it is the delivery of a signal to the
\* installed handler.
C12_FlagMonotonic ==
    /\ interrupted = 0
    /\ [][/\ interrupted' \in {0, 1}
          /\ interrupted = 1 => interrupted' = 1
          /\ interrupted' # interrupted =>
                /\ HandlerRuns
                /\ installed # {}
                /\ UNCHANGED <<pc, serial_device, hist>>]_vars

\* the flag is set and a second delivery has left it set
C12_Witness ==
    /\ interrupted = 1
    /\ sigCount = 2
    /\ pc \in LoopPcs

\* C13: a delivery of the signal to the handler, at whatever point of main
\* it happens, changes the flag and nothing else (baud, hwflow, path and
\* the handle are as before), and a delivery with the flag already set
\* leaves the state as it was.
C13_HandlerOnlySetsFlag ==
    [][HandlerRuns =>
          /\ interrupted' = 1
          /\ UNCHANGED <<serial_device, sys, pc, args, nextchar, installed,
                         libc, pldm, exitStatus, hist>>
          /\ interrupted = 1 => interrupted' = interrupted]_vars

\* two deliveries before initialization, the parsed configuration intact
C13_Witness ==
    /\ pc = "init"
    /\ sigCount = 2
    /\ interrupted = 1
    /\ serial_device.path # EmptyStr
    /\ serial_device.fd = ClosedFd

-----------------------------------------------------------------------------
\* the handle changes in this step
HandleChanges == serial_device'.fd # serial_device.fd

\* C14 as stated: the handle is written by the transport only, so by no
\* step of the parser, of the signal handler or of the control loop; the
\* transport code that runs under main is platform_init (inside mctp_init)
\* and the byte I/O and readiness functions.
C14_OnlyTransportWrites ==
    [][HandleChanges => (pc = "init" /\ ~HandlerRuns)]_vars

\* C14: the handle is written only by platform_init and by the close-and-
\* reset block main runs after the loop; no step of the parser, of the
\* signal handler or of a loop iteration changes it, and every change is
\* made by the one step of main that is running.
C14_HandleWriters ==
    [][/\ HandleChanges => (pc \in {"init", "teardown"} /\ ~HandlerRuns)
       /\ (pc \in PreInitPcs \/ InLoop) => ~HandleChanges
       /\ HandlerRuns => ~HandleChanges
       /\ (HandleChanges /\ pc = "teardown") =>
             (serial_device'.fd = ClosedFd /\ interrupted # 0)]_vars

\* the handle was opened by platform_init, iterations ran with writes to
\* it, and the block after the loop has reset it
C14_Witness ==
    /\ pc = "done"
    /\ hist.outcome = "ok"
    /\ hist.closes = 1
    /\ hist.iterated
    /\ hist.lastWrite = "failed"
    /\ serial_device.fd = ClosedFd

-----------------------------------------------------------------------------
\* the fields the parser fills in
Settings(cfg) == <<cfg.baud, cfg.hwflow, cfg.path>>

\* C15: the parser's changes to baud, hwflow and path all come before the
\* first transport operation: from the start of platform_init on, baud and
\* hwflow never change, path changes only inside platform_init entered with
\* an empty path, and platform_init entered with a non-empty path leaves
\* path as it was.
C15_SettingsBeforeTransport ==
    [][/\ Settings(serial_device') # Settings(serial_device) =>
             (pc \in {"parse", "init"} /\ ~HandlerRuns)
       /\ (pc = "parse" /\ Settings(serial_device') # Settings(serial_device)) =>
             hist.initCount = 0
       /\ pc # "parse" =>
             /\ serial_device'.baud = serial_device.baud
             /\ serial_device'.hwflow = serial_device.hwflow
       /\ hist.initCount > 0 => Settings(serial_device') = Settings(serial_device)
       /\ serial_device'.path # serial_device.path /\ pc # "parse" =>
             (pc = "init" /\ serial_device.path = EmptyStr)
       /\ (pc = "init" /\ serial_device.path # EmptyStr) =>
             serial_device'.path = serial_device.path]_vars

\* platform_init was entered with a path given by the parser, opened the
\* device, and the loop runs with the path as given
C15_Witness ==
    /\ InLoop
    /\ hist.iterated
    /\ hist.initCount = 1
    /\ hist.outcome = "ok"
    /\ hist.pathAtInit # EmptyStr
    /\ serial_device.path = hist.pathAtInit
    /\ serial_device.fd # ClosedFd

-----------------------------------------------------------------------------
\* platform_init was entered with a path and has left the handle Open
OpenInDeviceMode ==
    /\ hist.initCount > 0
    /\ hist.pathAtInit # EmptyStr
    /\ serial_device.fd # ClosedFd

\* the line settings t are the ones the configuration cfg asks for
SettingsApplied(t, cfg) ==
    /\ t.ospeed = cfg.baud /\ t.ispeed = cfg.baud
    /\ t.csize = "CS8" /\ ~t.parenb /\ ~t.cstopb
    /\ t.cread
    /\ t.clocal
    /\ ~t.icanon /\ ~t.echo /\ ~t.echoe /\ ~t.isig
    /\ ~t.ixon /\ ~t.ixoff /\ ~t.ixany
    /\ ~t.opost
    /\ t.crtscts = (cfg.hwflow # 0)

\* C16: whenever platform_init was entered with a non-empty path and the
\* handle is Open afterwards, the line has the settings applied: rate equal
\* to baud, 8 data bits, no parity, 1 stop bit, reads enabled, modem-control
\* lines ignored, raw mode, and hardware flow control exactly when hwflow
\* is set.
C16_LineSettingsApplied ==
    OpenInDeviceMode =>
        /\ Len(sys.line) = 1
        /\ SettingsApplied(sys.line[1], serial_device)

-----------------------------------------------------------------------------
\* the option the parse step at hand handles, and the token it hands on
ScannedOption == getopt_long(args, nextchar)

ScannedToken == OptionValue(ScannedOption).val

TokenStep(c) ==
    /\ pc = "parse"
    /\ ~HandlerRuns
    /\ ScannedOption.opt = c
    /\ ScannedToken # NULL

\* the rate a recognized token names
RateOf(tok) ==
    CASE tok = Str4800 -> 4800
      [] tok = Str9600 -> 9600
      [] tok = Str19200 -> 19200
      [] tok = Str38400 -> 38400
      [] tok = Str57600 -> 57600
      [] tok = Str115200 -> 115200
      [] tok = Str230400 -> 230400

\* C17: the seven recognized baud tokens map one-to-one onto the seven
\* values of the enumerated set; any other token (case and whitespace
\* variants included) gives the value "115200" maps to, with a warning; and
\* no baud token makes parseArgs fail.
C17_BaudTokenMapping ==
    /\ Cardinality(BaudSet(libc)) = 7
    /\ {baudRateFromString(libc, tok).val : tok \in RecognizedBaudTokens}
          = BaudSet(libc)
    /\ \A t1, t2 \in RecognizedBaudTokens :
          baudRateFromString(libc, t1).val = baudRateFromString(libc, t2).val
             => t1 = t2
    /\ [](pc = "exit_fail" => hist.lastOpt \in {"h", Unknown})
    /\ [][TokenStep("b") =>
            LET r == parseArgsStep(serial_device, args, nextchar, libc)
            IN /\ pc' = "parse"
               /\ ~r.done /\ ~r.usage
               /\ IF ScannedToken \in RecognizedBaudTokens
                  THEN /\ serial_device'.baud = B(libc, RateOf(ScannedToken))
                       /\ ~r.warned
                       /\ hist'.warned = hist.warned
                  ELSE /\ serial_device'.baud = B(libc, 115200)
                       /\ r.warned
                       /\ hist'.warned]_vars

\* a whitespace variant of a recognized token was mapped to the default
\* with a warning, and main went on to initialization
C17_Witness ==
    /\ pc = "init"
    /\ hist.lastOpt = EndOfOptions
    /\ hist.lastVal = <<"9", "6", "0", "0", " ">>
    /\ hist.warned
    /\ serial_device.baud = B(libc, 115200)

\* C18: boolean tokens are read without regard to case: every spelling of
\* true, 1 and yes gives true, every spelling of false, 0 and no gives false
\* with no warning, any other token gives false with a warning, and no
\* boolean token makes parseArgs fail.
C18_BoolTokenParsing ==
    /\ [](pc = "exit_fail" => hist.usage)
    /\ [][TokenStep("f") =>
            LET r == parseArgsStep(serial_device, args, nextchar, libc)
            IN /\ pc' = "parse"
               /\ ~r.done /\ ~r.usage
               /\ ScannedToken \in TrueTokens =>
                     (serial_device'.hwflow = 1 /\ ~r.warned)
               /\ ScannedToken \in FalseTokens =>
                     (serial_device'.hwflow = 0 /\ ~r.warned)
               /\ ScannedToken \notin TrueTokens \cup FalseTokens =>
                     (serial_device'.hwflow = 0 /\ r.warned /\ hist'.warned)
               /\ ~r.warned => hist'.warned = hist.warned]_vars

\* a mixed-case spelling of yes has switched flow control on with no
\* warning, and main went on to initialization
C18_Witness ==
    /\ pc = "init"
    /\ hist.lastOpt = EndOfOptions
    /\ hist.lastVal = <<"Y", "e", "S">>
    /\ ~hist.warned
    /\ serial_device.hwflow = 1

-----------------------------------------------------------------------------
\* the steps of main in which bytes are read or written
ByteIoPcs == {"update", "control", "pldm"}

\* C19: platform_serial_read_byte and platform_serial_write_byte leave
\* serial_device as it is, on success and on failure, with the handle Open
\* or Closed (a failed read or write does not close the transport); a read
\* that yields no byte returns 0; and platform_serial_write_byte writes
\* without a readiness query first.
C19_ByteIoFrame ==
    /\ [](\A ok \in BOOLEAN :
            LET r == platform_serial_read_byte(serial_device, sys, ok)
            IN /\ r.cfg = serial_device
               /\ ~r.got => (r.ret = 0 /\ r.os = sys)
               /\ (serial_device.fd = ClosedFd \/ ~ok) => ~r.got)
    /\ [](\A ok \in BOOLEAN, b \in Bytes :
            LET w == platform_serial_write_byte(serial_device, sys, b, ok)
            IN /\ w.cfg = serial_device
               /\ ~w.selected
               /\ (serial_device.fd = ClosedFd \/ ~ok) => ~w.wrote)
    /\ [][(pc \in ByteIoPcs /\ ~HandlerRuns) =>
            /\ serial_device' = serial_device
            /\ sys'.openFds = sys.openFds
            /\ hist'.selectOnClosed = hist.selectOnClosed]_vars

\* a write has failed on the Open handle and the handle is still Open
C19_Witness ==
    /\ hist.lastWrite = "failed"
    /\ pc = "loop"
    /\ serial_device.fd \in sys.openFds
    /\ hist.outcome = "ok"

-----------------------------------------------------------------------------
\* the flag is set and no iteration of the loop has started
FlagSetEarly == interrupted # 0 /\ ~hist.iterated

\* C20: when a signal sets the flag before the loop's first check (while
\* the arguments are parsed or during initialization) and parsing succeeds,
\* initialization still runs to its end, the loop body runs zero times (no
\* call of the external processor after mctp_init), the handle
\* initialization opened is closed by the block after the loop, and main
\* returns 0.
C20_EarlySignal ==
    /\ []((FlagSetEarly /\ pc \in {"init", "loop", "teardown"}) => ENABLED Main)
    /\ []((FlagSetEarly /\ pc \in {"loop", "teardown", "done"}) =>
            /\ hist.initCount = 1
            /\ hist.outcome \in PtyOutcomes \cup DevOutcomes
            /\ hist.iterCalls = <<>>
            /\ hist.lastWrite = "none")
    /\ []((FlagSetEarly /\ pc = "done") =>
            /\ hist.shutdownCount = 1
            /\ hist.closes = (IF hist.outcome = "ok" THEN 1 ELSE 0)
            /\ serial_device.fd = ClosedFd
            /\ sys.openFds = {}
            /\ ~sys.badClose
            /\ exitStatus = <<0>>)
    /\ [][FlagSetEarly =>
            /\ FlagSetEarly'
            /\ pc' \notin (LoopPcs \ {"loop"})
            /\ (pc' \in Terminal /\ pc \notin PreInitPcs) => pc' = "done"
            /\ (pc = "init" /\ ~HandlerRuns) => (pc' = "loop" /\ hist'.initCount = 1)
            /\ (pc = "loop" /\ ~HandlerRuns /\ sys' = sys) => pc' = "teardown"
            /\ (pc = "teardown" /\ ~HandlerRuns /\ sys'.rx = sys.rx) => pc' = "done"]_vars

\* the flag was set before the first check, initialization opened the
\* handle, no iteration ran, and main has closed the handle and returned 0
C20_Witness ==
    /\ FlagSetEarly
    /\ pc = "done"
    /\ hist.outcome = "ok"
    /\ hist.closes = 1
    /\ serial_device.fd = ClosedFd
    /\ exitStatus = <<0>>
====
